---- MODULE Spec2Model ----
(***************************************************************************)
(* A model of match (a fork of match-sorter): the scorer getMatchRanking   *)
(* with its fuzzy fallback getClosenessRanking, the diacritic expansion    *)
(* searchRegex, the aggregator rankItem with its extraction helpers, and   *)
(* the comparator compareItems.                                            *)
(*                                                                         *)
(* A JavaScript string is a sequence of one-character strings.  A pattern  *)
(* handed to `new RegExp` is such a string too: it is parsed (a            *)
(* SyntaxError is a possible outcome) and matched by a backtracking        *)
(* matcher that lists the ways to match in the engine's priority order.    *)
(***************************************************************************)
EXTENDS Integers, Sequences, FiniteSets, TLC

VARIABLES
    pc,          \* position of the call in progress
    item,        \* rankItem's `item` argument (caller-owned)
    value,       \* rankItem's `value` argument: the query
    options,     \* rankItem's `options` argument (caller-owned record)
    valuesToRank,        \* local of rankItem
    i,                   \* local of rankItem: the loop index
    bestMatchRanking,    \* local of rankItem
    passed,              \* local of rankItem
    accessorIndex,       \* local of rankItem
    accessorThreshold,   \* local of rankItem
    rankedValue,         \* local of rankItem
    result,      \* what the last call returned (or that it threw)
    other,       \* an earlier result, kept by the caller for sorting
    order        \* compareItems(other, result), once computed

vars == <<pc, item, value, options, valuesToRank, i, bestMatchRanking, passed,
          accessorIndex, accessorThreshold, rankedValue, result, other, order>>

-----------------------------------------------------------------------------
(* rankings *)

CASE_SENSITIVE_EQUAL == 7
EQUAL == 6
STARTS_WITH == 5
WORD_STARTS_WITH == 4
CONTAINS == 3
ACRONYM == 2
MATCHES == 1
NO_MATCH == 0

\* Infinity as Ranking: above every ranking; -Infinity is its negation.
Infinity == 1000

\* The value of a missing property or of a read past the end of a string.
undefined == "undefined"

-----------------------------------------------------------------------------
(* Sequence helpers *)

RECURSIVE Concat(_)
Concat(seqs) ==
    IF seqs = <<>> THEN <<>> ELSE Head(seqs) \o Concat(Tail(seqs))

\* Array.prototype.join for an array of strings
RECURSIVE Join(_, _)
Join(parts, sep) ==
    IF parts = <<>> THEN <<>>
    ELSE IF Len(parts) = 1 THEN parts[1]
    ELSE parts[1] \o sep \o Join(Tail(parts), sep)

-----------------------------------------------------------------------------
(* The RegExp engine: parsing *)

Quantifiers == {"*", "+", "?"}

SyntaxError == [ok |-> FALSE]

RECURSIVE ParseDisjunction(_, _, _)
RECURSIVE ParseAlternative(_, _, _, _)
RECURSIVE ParseTerm(_, _, _)
RECURSIVE ParseAtom(_, _, _)

Parsed(node, pos, n) == [ok |-> TRUE, node |-> node, pos |-> pos, n |-> n]

\* Disjunction :: Alternative | Alternative `|` Disjunction
ParseDisjunction(p, at, n) ==
    LET AfterRest(first, rest) ==
            IF ~rest.ok THEN SyntaxError
            ELSE Parsed([t |-> "alt", left |-> first.node, right |-> rest.node],
                        rest.pos, rest.n)
        AfterFirst(first) ==
            IF ~first.ok THEN SyntaxError
            ELSE IF first.pos <= Len(p) /\ p[first.pos] = "|"
            THEN AfterRest(first, ParseDisjunction(p, first.pos + 1, first.n))
            ELSE first
    IN  AfterFirst(ParseAlternative(p, at, n, <<>>))

\* Alternative :: Term*
ParseAlternative(p, at, n, acc) ==
    LET AfterTerm(term) ==
            IF ~term.ok THEN SyntaxError
            ELSE ParseAlternative(p, term.pos, term.n, Append(acc, term.node))
    IN  IF at > Len(p) \/ p[at] \in {"|", ")"}
        THEN Parsed([t |-> "seq", items |-> acc], at, n)
        ELSE AfterTerm(ParseTerm(p, at, n))

\* Term :: Assertion | Atom | Atom Quantifier
ParseTerm(p, at, n) ==
    LET Quantified(atom, lazy) ==
            Parsed([t |-> "quant", q |-> p[atom.pos], lazy |-> lazy, body |-> atom.node],
                   atom.pos + (IF lazy THEN 2 ELSE 1), atom.n)
        AfterAtom(atom) ==
            IF ~atom.ok THEN SyntaxError
            ELSE IF atom.pos <= Len(p) /\ p[atom.pos] \in Quantifiers
            THEN Quantified(atom, atom.pos + 1 <= Len(p) /\ p[atom.pos + 1] = "?")
            ELSE atom
    IN  IF p[at] = "^" THEN Parsed([t |-> "bol"], at + 1, n)
        ELSE IF p[at] = "$" THEN Parsed([t |-> "eol"], at + 1, n)
        ELSE IF p[at] \in Quantifiers THEN SyntaxError   \* nothing to repeat
        ELSE AfterAtom(ParseAtom(p, at, n))

\* Atom :: `.` | `\` AtomEscape | `(` Disjunction `)` | `(?:` Disjunction `)` | PatternCharacter
ParseAtom(p, at, n) ==
    LET AfterBody(body, cap) ==
            IF ~body.ok THEN SyntaxError
            ELSE IF ~(body.pos <= Len(p) /\ p[body.pos] = ")")
            THEN SyntaxError              \* unterminated group
            ELSE Parsed([t |-> "group", cap |-> cap, body |-> body.node],
                        body.pos + 1, body.n)
        Grouped(nonCapturing) ==
            IF nonCapturing /\ ~(at + 2 <= Len(p) /\ p[at + 2] = ":")
            THEN SyntaxError              \* invalid group
            ELSE AfterBody(ParseDisjunction(p, IF nonCapturing THEN at + 3 ELSE at + 1,
                                            IF nonCapturing THEN n ELSE n + 1),
                           IF nonCapturing THEN 0 ELSE n + 1)
    IN  IF p[at] = "(" THEN Grouped(at + 1 <= Len(p) /\ p[at + 1] = "?")
        ELSE IF p[at] = "\\"
        THEN IF at = Len(p) THEN SyntaxError    \* \ at end of pattern
             ELSE IF p[at + 1] = "s" THEN Parsed([t |-> "space"], at + 2, n)
             ELSE Parsed([t |-> "char", c |-> p[at + 1]], at + 2, n)
        ELSE IF p[at] = "." THEN Parsed([t |-> "any"], at + 1, n)
        ELSE Parsed([t |-> "char", c |-> p[at]], at + 1, n)

\* new RegExp(pattern, flags): the compiled pattern, or a SyntaxError
NewRegExp(pattern, flags) ==
    LET Whole(r) ==
            IF r.ok /\ r.pos = Len(pattern) + 1     \* else: unmatched ')'
            THEN [ok |-> TRUE, node |-> r.node, ncap |-> r.n, ignoreCase |-> "i" \in flags]
            ELSE SyntaxError
    IN  Whole(ParseDisjunction(pattern, 1, 0))

-----------------------------------------------------------------------------
(* The RegExp engine: matching *)

\* The characters the model's strings are made of that \s matches.
WhiteSpace == {" "}

\* Canonicalize(ch) under the i flag: the character's upper case.
toUpperCase(ch) ==
    CASE ch = "a" -> "A"
      [] ch = "b" -> "B"
      [] ch = "f" -> "F"
      [] ch = "s" -> "S"
      [] ch = "x" -> "X"
      [] ch = "á" -> "Á"
      [] ch = "ƒ" -> "Ƒ"
      [] OTHER -> ch

CharMatches(c, ch, ignoreCase) ==
    IF ignoreCase THEN toUpperCase(c) = toUpperCase(ch) ELSE c = ch

\* A match in progress: `pos` characters of the text are consumed, and
\* caps[k] is the <<start, end>> span of capture group k (<<-1, -1>>: none).
Advance(st) == [st EXCEPT !.pos = st.pos + 1]

RECURSIVE Match(_, _, _, _)
RECURSIVE MatchAll(_, _, _, _)
RECURSIVE MatchItems(_, _, _, _, _)
RECURSIVE MatchStar(_, _, _, _, _)
RECURSIVE MatchStarAll(_, _, _, _, _)

\* The ways `node` matches `text` from state st, in the order the
\* backtracking engine tries them.
Match(node, text, st, ignoreCase) ==
    LET Captured(inner) ==
            IF node.cap = 0 THEN inner
            ELSE [k \in DOMAIN inner |->
                    [inner[k] EXCEPT !.caps[node.cap] = <<st.pos, inner[k].pos>>]]
        Repeated(once) ==
            IF node.q = "?"
            THEN IF node.lazy THEN <<st>> \o once ELSE once \o <<st>>
            ELSE MatchStarAll(node.body, node.lazy, text, once, ignoreCase)
    IN
    CASE node.t = "char" ->
           IF st.pos < Len(text) /\ CharMatches(node.c, text[st.pos + 1], ignoreCase)
           THEN <<Advance(st)>> ELSE <<>>
      [] node.t = "any" -> IF st.pos < Len(text) THEN <<Advance(st)>> ELSE <<>>
      [] node.t = "space" ->
           IF st.pos < Len(text) /\ text[st.pos + 1] \in WhiteSpace
           THEN <<Advance(st)>> ELSE <<>>
      [] node.t = "bol" -> IF st.pos = 0 THEN <<st>> ELSE <<>>
      [] node.t = "eol" -> IF st.pos = Len(text) THEN <<st>> ELSE <<>>
      [] node.t = "seq" -> MatchItems(node.items, 1, text, <<st>>, ignoreCase)
      [] node.t = "alt" ->
           Match(node.left, text, st, ignoreCase) \o Match(node.right, text, st, ignoreCase)
      [] node.t = "group" -> Captured(Match(node.body, text, st, ignoreCase))
      [] node.t = "quant" ->
           IF node.q = "*" THEN MatchStar(node.body, node.lazy, text, st, ignoreCase)
           ELSE Repeated(Match(node.body, text, st, ignoreCase))

MatchAll(node, text, states, ignoreCase) ==
    IF states = <<>> THEN <<>>
    ELSE Match(node, text, Head(states), ignoreCase)
         \o MatchAll(node, text, Tail(states), ignoreCase)

MatchItems(items, k, text, states, ignoreCase) ==
    IF k > Len(items) \/ states = <<>> THEN states
    ELSE MatchItems(items, k + 1, text, MatchAll(items[k], text, states, ignoreCase),
                    ignoreCase)

\* body*: another iteration (one that consumed something) first when greedy
MatchStar(body, lazy, text, st, ignoreCase) ==
    LET Then(more) == IF lazy THEN <<st>> \o more ELSE more \o <<st>>
    IN  Then(MatchStarAll(body, lazy, text,
                          SelectSeq(Match(body, text, st, ignoreCase),
                                    LAMBDA s : s.pos > st.pos),
                          ignoreCase))

MatchStarAll(body, lazy, text, states, ignoreCase) ==
    IF states = <<>> THEN <<>>
    ELSE MatchStar(body, lazy, text, Head(states), ignoreCase)
         \o MatchStarAll(body, lazy, text, Tail(states), ignoreCase)

null == [matched |-> FALSE]

\* RegExp.prototype.exec without the g flag: the leftmost match, and at that
\* start the first in priority order; null when there is none.
RECURSIVE ExecFrom(_, _, _)
ExecFrom(re, text, start) ==
    LET Found(found) ==
            IF found # <<>>
            THEN [matched |-> TRUE, index |-> start, end |-> found[1].pos,
                  caps |-> found[1].caps]
            ELSE ExecFrom(re, text, start + 1)
    IN  IF start > Len(text) THEN null
        ELSE Found(Match(re.node, text,
                         [pos |-> start, caps |-> [k \in 1..re.ncap |-> <<-1, -1>>]],
                         re.ignoreCase))

RegExpExec(re, text) == ExecFrom(re, text, 0)

\* String.prototype.replace(re, replacement) for a g-flagged re and a
\* replacement without $ patterns: every match, left to right, is replaced.
RECURSIVE ReplaceFrom(_, _, _, _)
ReplaceFrom(string, re, replacement, start) ==
    LET Found(found) ==
            IF found # <<>> /\ found[1].pos > start
            THEN replacement \o ReplaceFrom(string, re, replacement, found[1].pos)
            ELSE <<string[start + 1]>> \o ReplaceFrom(string, re, replacement, start + 1)
    IN  IF start >= Len(string) THEN <<>>
        ELSE Found(Match(re.node, string, [pos |-> start, caps |-> <<>>], re.ignoreCase))

StringReplace(string, re, replacement) == ReplaceFrom(string, re, replacement, 0)

-----------------------------------------------------------------------------
(* searchRegex *)

\* (?:x|y|z) as pattern text
Group(alternatives) == <<"(", "?", ":">> \o Join(alternatives, <<"|">>) \o <<")">>

\* The lines of the table for the characters of the model's strings, in the
\* table's order, each with its alternatives outside the model's character set
\* left out.
similarCharacters == <<
    <<"\\", "s">>,
    Group(<< <<"A">>, <<"Á">>, <<"A">>, <<"A">> >>),
    Group(<< <<"a">>, <<"á">>, <<"a">>, <<"a">> >>),
    Group(<< <<"s">> >>),
    Group(<< <<"X">>, <<"X">>, <<"X">>, <<"X">>, <<"X">> >>),
    Group(<< <<"x">>, <<"x">>, <<"x">>, <<"x">>, <<"x">> >>),
    Group(<< <<"f">>, <<"ƒ">>, <<"f">> >>),
    Group(<< <<"B">>, <<"B">>, <<"B">> >>),
    Group(<< <<"b">>, <<"b">>, <<"b">> >>),
    Group(<< <<"F">>, <<"F">> >>)
>>

\* new RegExp(group, `g`) for every group of the table
similarCharacterRegExps ==
    [g \in DOMAIN similarCharacters |-> NewRegExp(similarCharacters[g], {"g"})]

RECURSIVE searchRegexFrom(_, _)
searchRegexFrom(search, g) ==
    IF g > Len(similarCharacters) THEN search
    ELSE searchRegexFrom(
            StringReplace(search, similarCharacterRegExps[g], similarCharacters[g]),
            g + 1)

searchRegex(search) == searchRegexFrom(search, 1)

-----------------------------------------------------------------------------
(* getClosenessRanking *)

\* string[index] for a 0-based index
CharAt(string, index) ==
    IF index >= 0 /\ index < Len(string) THEN string[index + 1] ELSE undefined

\* findMatchingCharacter returning j, the matched index itself, where the
\* code returns j + 1: the next search then starts on the matched character.
RECURSIVE findMatchingCharacterAtIndex(_, _, _)
findMatchingCharacterAtIndex(matchChar, string, index) ==
    IF index >= Len(string) THEN -1
    ELSE IF CharAt(string, index) = matchChar THEN index
    ELSE findMatchingCharacterAtIndex(matchChar, string, index + 1)

\* The inner function's return value: j + 1 for the first j >= index with
\* string[j] === matchChar, else -1.  (Its side effect, the increment of
\* matchingInOrderCharCount on success, is applied by the callers below.)
RECURSIVE findMatchingCharacter(_, _, _)
findMatchingCharacter(matchChar, string, index) ==
    IF index >= Len(string) THEN -1
    ELSE IF CharAt(string, index) = matchChar THEN index + 1
    ELSE findMatchingCharacter(matchChar, string, index + 1)

\* A JavaScript number that is a quotient: num / den, where den = 0 with
\* num > 0 is Infinity and 0 / 0 is NaN.
Quotient(num, den) == [num |-> num, den |-> den]

\* The for loop over stringToRank[1..]: the locals after it, or found = FALSE
\* when it returned NO_MATCH.
RECURSIVE closenessLoop(_, _, _, _, _)
closenessLoop(testString, stringToRank, k, charNumber, matchingInOrderCharCount) ==
    LET Found(next) ==
            IF ~(next > -1) THEN [found |-> FALSE]
            ELSE closenessLoop(testString, stringToRank, k + 1, next,
                               matchingInOrderCharCount + 1)
    IN  IF k >= Len(stringToRank)
        THEN [found |-> TRUE, charNumber |-> charNumber,
              matchingInOrderCharCount |-> matchingInOrderCharCount]
        ELSE Found(findMatchingCharacter(CharAt(stringToRank, k), testString, charNumber))

\* closenessResult with length = charNumber - firstIndex + 1.
closenessResultInclusive(stringToRank, firstIndex, charNumber, matchingInOrderCharCount) ==
    LET length == charNumber - firstIndex + 1 IN
    [rank |-> MATCHES,
     index |-> length,
     length |-> matchingInOrderCharCount,
     closeness |-> Quotient(matchingInOrderCharCount, Len(stringToRank) * length)]

\* Lines 322-329: the result once every character is found
closenessResult(stringToRank, firstIndex, charNumber, matchingInOrderCharCount) ==
    LET length == charNumber - firstIndex IN
    [rank |-> MATCHES,
     index |-> length,
     length |-> matchingInOrderCharCount,
     closeness |-> Quotient(matchingInOrderCharCount, Len(stringToRank) * length)]

getClosenessRanking(testString, stringToRank) ==
    LET AfterLoop(firstIndex, end) ==
            IF ~end.found THEN [rank |-> NO_MATCH]
            ELSE closenessResult(stringToRank, firstIndex, end.charNumber,
                                 end.matchingInOrderCharCount)
        AfterFirst(firstIndex) ==
            IF firstIndex < 0 THEN [rank |-> NO_MATCH]
            ELSE AfterLoop(firstIndex,
                           closenessLoop(testString, stringToRank, 1, firstIndex, 1))
    IN  AfterFirst(findMatchingCharacter(CharAt(stringToRank, 0), testString, 0))

-----------------------------------------------------------------------------
(* getMatchRanking *)

Return(v) == [completion |-> "return", value |-> v]
Throw(e) == [completion |-> "throw", error |-> e]

\* stringToRank.split(``).map(character => `(^|\s|-)(${searchRegex(character)})(.*)`).join(``)
acronymPattern(stringToRank) ==
    Concat([k \in 1..Len(stringToRank) |->
              <<"(", "^", "|", "\\", "s", "|", "-", ")", "(">>
              \o searchRegex(<<stringToRank[k]>>)
              \o <<")", "(", ".", "*", ")">>])

\* The loop over match.slice(1).entries(): the start of every capture
\* group whose 0-based position arrayIndex has (arrayIndex + 2) % 3 = 0.
RECURSIVE acronymIndexes(_, _, _)
acronymIndexes(caps, arrayIndex, index) ==
    IF arrayIndex >= Len(caps) THEN <<>>
    ELSE (IF (arrayIndex + 2) % 3 = 0 THEN <<index>> ELSE <<>>)
         \o acronymIndexes(caps, arrayIndex + 1,
                           index + (caps[arrayIndex + 1][2] - caps[arrayIndex + 1][1]))

keepDiacriticsOf(opts) ==
    IF "keepDiacritics" \in DOMAIN opts THEN opts.keepDiacritics ELSE FALSE

\* new RegExp(pattern, flags).exec(testString): the construction may throw.
Exec(pattern, flags, testString) ==
    LET Built(re) == IF ~re.ok THEN [threw |-> TRUE]
                     ELSE [threw |-> FALSE, match |-> RegExpExec(re, testString)]
    IN  Built(NewRegExp(pattern, flags))

getMatchRanking(testString, stringToRank, opts) ==
    LET Acronym(r) ==
            IF r.threw THEN Throw("SyntaxError")
            ELSE IF r.match.matched
            THEN IF \E k \in DOMAIN r.match.caps : r.match.caps[k] = <<-1, -1>>
                 THEN Throw("TypeError")     \* value.length of an unmatched group
                 ELSE Return([rank |-> ACRONYM,
                              indexes |-> acronymIndexes(r.match.caps, 0, r.match.index)])
            ELSE Return(getClosenessRanking(testString, stringToRank))
        Contains(r) ==
            IF r.threw THEN Throw("SyntaxError")
            ELSE IF r.match.matched
            THEN Return([rank |-> CONTAINS, index |-> r.match.index,
                         length |-> r.match.end - r.match.index])
            ELSE Acronym(Exec(acronymPattern(stringToRank), {}, testString))
        WordStartsWith(r, searchString) ==
            IF r.threw THEN Throw("SyntaxError")
            ELSE IF r.match.matched
            THEN Return([rank |-> WORD_STARTS_WITH, index |-> r.match.index + 1,
                         length |-> (r.match.end - r.match.index) - 1])
            ELSE Contains(Exec(searchString, {"i"}, testString))
        StartsWith(r, searchString) ==
            IF r.threw THEN Throw("SyntaxError")
            ELSE IF r.match.matched
            THEN Return([rank |-> STARTS_WITH, length |-> r.match.end - r.match.index])
            ELSE WordStartsWith(Exec(<<"\\", "s">> \o searchString, {"i"}, testString),
                                searchString)
        Equals(r, searchString) ==
            IF r.threw THEN Throw("SyntaxError")
            ELSE IF r.match.matched THEN Return([rank |-> EQUAL])
            ELSE StartsWith(Exec(<<"^">> \o searchString, {"i"}, testString), searchString)
        CaseSensitiveEquals(r, searchString) ==
            IF r.threw THEN Throw("SyntaxError")
            ELSE IF r.match.matched THEN Return([rank |-> CASE_SENSITIVE_EQUAL])
            ELSE Equals(Exec(<<"^">> \o searchString \o <<"$">>, {"i"}, testString),
                        searchString)
        Search(searchString) ==
            CaseSensitiveEquals(Exec(<<"^">> \o searchString \o <<"$">>, {}, testString),
                                searchString)
    IN  Search(IF ~keepDiacriticsOf(opts) THEN searchRegex(stringToRank) ELSE stringToRank)

-----------------------------------------------------------------------------
(* Extraction: getItemValues, getAccessorAttributes, getAllValuesToRank *)

\* { ...a, ...b }
Spread(a, b) ==
    [k \in DOMAIN a \cup DOMAIN b |-> IF k \in DOMAIN b THEN b[k] ELSE a[k]]

\* An item's property is null, a string, an array of strings or a number.
null_value == [type |-> "null"]
StringValue(chars) == [type |-> "string", chars |-> chars]
ArrayValue(elements) == [type |-> "array", elements |-> elements]
NumberValue(n) == [type |-> "number", n |-> n]

\* An accessor function reads one property of the item.
AccessorFn(property) == [property |-> property]
Call(accessorFn, anItem) == anItem[accessorFn.property]

\* typeof accessor: a function, or an AccessorOptions object
typeof(accessor) == IF "property" \in DOMAIN accessor THEN "function" ELSE "object"

\* String(value) for a non-negative integer: its decimal digits
RECURSIVE NumberToString(_)
NumberToString(n) ==
    LET digit == <<"0", "1", "2", "3", "4", "5", "6", "7", "8", "9">>[(n % 10) + 1] IN
    IF n < 10 THEN <<digit>> ELSE NumberToString(n \div 10) \o <<digit>>

\* String(value) for a value that is not null and not an array
String(v) == IF v.type = "string" THEN v.chars ELSE NumberToString(v.n)

getItemValues(anItem, accessor) ==
    LET accessorFn == IF typeof(accessor) = "object" THEN accessor.accessor ELSE accessor
        v == Call(accessorFn, anItem)
    IN  IF v.type = "null" THEN <<>>
        ELSE IF v.type = "array" THEN v.elements
        ELSE <<String(v)>>

defaultKeyAttributes == [maxRanking |-> Infinity, minRanking |-> -Infinity]

getAccessorAttributes(accessor) ==
    IF typeof(accessor) = "function" THEN defaultKeyAttributes
    ELSE Spread(defaultKeyAttributes, accessor)

RECURSIVE getAllValuesToRankFrom(_, _, _)
getAllValuesToRankFrom(anItem, accessors, j) ==
    IF j >= Len(accessors) THEN <<>>
    ELSE LET accessor == accessors[j + 1]
             attributes == getAccessorAttributes(accessor)
             itemValues == getItemValues(anItem, accessor)
         IN  [k \in 1..Len(itemValues) |->
                 [itemValue |-> itemValues[k], attributes |-> attributes]]
             \o getAllValuesToRankFrom(anItem, accessors, j + 1)

getAllValuesToRank(anItem, accessors) == getAllValuesToRankFrom(anItem, accessors, 0)

-----------------------------------------------------------------------------
(* compareItems *)

\* x > y for two quotients with positive denominators, or Infinity
QuotientGreater(x, y) == x.num * y.den > y.num * x.den

\* x - y: Infinity - Infinity is NaN (0 / 0)
QuotientMinus(x, y) ==
    IF x.den = 0 /\ y.den = 0 THEN Quotient(0, 0)
    ELSE IF x.den = 0 THEN x
    ELSE IF y.den = 0 THEN Quotient(-y.num, 0)
    ELSE Quotient(x.num * y.den - y.num * x.den, x.den * y.den)

\* compareItems comparing by rank alone.
compareItemsByRank(a, b) == Quotient(b.rank - a.rank, 1)

compareItems(a, b) ==
    IF a.rank = MATCHES /\ b.rank = MATCHES
    THEN QuotientMinus(b.closeness, a.closeness)
    ELSE Quotient(b.rank - a.rank, 1)

-----------------------------------------------------------------------------
(* rankItem *)

\* The options argument when the caller passes none.
NoOptions == [omitted |-> TRUE]

\* The object the parameter `options` names after lines 64-66: the caller's
\* own object with its threshold defaulted, or a fresh one.
optionsAfterDefaults(opts) ==
    IF opts = NoOptions THEN [threshold |-> MATCHES]
    ELSE Spread(opts, [threshold |-> IF "threshold" \in DOMAIN opts THEN opts.threshold
                                     ELSE MATCHES])

\* What the caller's object holds after line 66: the assignment writes to it.
callerOptionsAfterDefaults(opts) ==
    IF opts = NoOptions THEN NoOptions ELSE optionsAfterDefaults(opts)

hasAccessors(opts) == "accessors" \in DOMAIN opts

Min(a, b) == IF a < b THEN a ELSE b

\* Lines 100-106: the rank of a candidate after its accessor's bounds
clampedRank(rank, attributes) ==
    LET newRank == IF rank < attributes.minRanking /\ rank >= MATCHES
                   THEN attributes.minRanking
                   ELSE IF rank > attributes.maxRanking THEN attributes.maxRanking
                   ELSE rank
    IN  Min(newRank, attributes.maxRanking)

\* Line 97: the accessor's threshold, or the call's
thresholdOf(attributes, opts) ==
    IF "threshold" \in DOMAIN attributes THEN attributes.threshold ELSE opts.threshold

\* Lines 108-116: whether the candidate becomes the best match
isNewBest(newRank, threshold, matchRanking, best) ==
    /\ newRank >= threshold
    /\ \/ newRank > best.rank
       \/ /\ matchRanking.rank = MATCHES
          /\ best.rank = MATCHES
          /\ QuotientGreater(matchRanking.closeness, best.closeness)

locals == <<valuesToRank, i, bestMatchRanking, passed, accessorIndex,
            accessorThreshold, rankedValue>>

\* Lines 64-79: no accessors, the item itself is the string to match.
rankItemDirect ==
    LET Scored(opts, m) ==
            IF m.completion = "throw"
            THEN /\ result' = m
                 /\ pc' = "threw"
            ELSE /\ result' = Return(Spread(Spread([rankedValue |-> item], m.value),
                                            [accessorIndex |-> -1,
                                             accessorThreshold |-> opts.threshold,
                                             passed |-> m.value.rank >= opts.threshold]))
                 /\ pc' = "done"
    IN  /\ pc = "start"
        /\ ~hasAccessors(optionsAfterDefaults(options))
        /\ options' = callerOptionsAfterDefaults(options)
        /\ Scored(optionsAfterDefaults(options),
                  getMatchRanking(item, value, optionsAfterDefaults(options)))
        /\ UNCHANGED <<item, value, locals, other, order>>

\* Lines 64-66 and 81-86: the candidates are extracted, the locals set.
rankItemExtract ==
    /\ pc = "start"
    /\ hasAccessors(optionsAfterDefaults(options))
    /\ options' = callerOptionsAfterDefaults(options)
    /\ valuesToRank' = getAllValuesToRank(item, options.accessors)
    /\ bestMatchRanking' = [rank |-> NO_MATCH]
    /\ passed' = FALSE
    /\ accessorIndex' = -1
    /\ accessorThreshold' = optionsAfterDefaults(options).threshold
    /\ rankedValue' = item
    /\ i' = 0
    /\ pc' = "loop"
    /\ UNCHANGED <<item, value, result, other, order>>

\* Lines 88-123: one turn of the loop.
rankItemLoop ==
    LET Ranked(rankValue, matchRanking, newRank, threshold) ==
            /\ IF isNewBest(newRank, threshold, matchRanking, bestMatchRanking)
               THEN /\ bestMatchRanking' = matchRanking
                    /\ passed' = TRUE
                    /\ accessorIndex' = i
                    /\ accessorThreshold' = threshold
                    /\ rankedValue' = rankValue.itemValue
               ELSE UNCHANGED <<bestMatchRanking, passed, accessorIndex,
                                accessorThreshold, rankedValue>>
            /\ i' = i + 1
            /\ UNCHANGED <<pc, result, valuesToRank>>
        Scored(rankValue, m) ==
            IF m.completion = "throw"
            THEN /\ result' = m
                 /\ pc' = "threw"
                 /\ UNCHANGED locals
            ELSE Ranked(rankValue, m.value,
                        clampedRank(m.value.rank, rankValue.attributes),
                        thresholdOf(rankValue.attributes, options))
    IN  /\ pc = "loop"
        /\ i < Len(valuesToRank)
        /\ Scored(valuesToRank[i + 1],
                  getMatchRanking(valuesToRank[i + 1].itemValue, value, options))
        /\ UNCHANGED <<item, value, options, other, order>>

\* Lines 125-131: the loop is over.
rankItemReturn ==
    /\ pc = "loop"
    /\ i >= Len(valuesToRank)
    /\ result' = Return(Spread([rankedValue |-> rankedValue,
                                accessorIndex |-> accessorIndex,
                                accessorThreshold |-> accessorThreshold,
                                passed |-> passed],
                               bestMatchRanking))
    /\ pc' = "done"
    /\ UNCHANGED <<item, value, options, locals, other, order>>

-----------------------------------------------------------------------------
(* The caller: it ranks two items with one query and one options object, *)
(* keeps the first result and compares the two, as a sort does.            *)

\* The item a caller with these options passes for the string `chars`.
ItemFor(opts, chars) ==
    IF hasAccessors(opts) THEN [name |-> StringValue(chars)] ELSE chars

\* Line 339, called with the kept result and the last one.
compare ==
    /\ pc = "done"
    /\ other.completion = "return"
    /\ order' = compareItems(other.value, result.value)
    /\ pc' = "compared"
    /\ UNCHANGED <<item, value, options, locals, result, other>>

-----------------------------------------------------------------------------
(* Inputs *)

MaxTestLen == 3
MaxQueryLen == 2
MaxItemLen == 4
MaxAccessors == 2

\* Every string of at most n characters of `chars`
Strings(chars, n) == UNION {[1..k -> chars] : k \in 0..n}

InitLocals ==
    /\ valuesToRank = <<>>
    /\ i = 0
    /\ bestMatchRanking = [rank |-> NO_MATCH]
    /\ passed = FALSE
    /\ accessorIndex = -1
    /\ accessorThreshold = MATCHES
    /\ rankedValue = <<>>
    /\ result = [completion |-> "none"]
    /\ other = [completion |-> "none"]
    /\ order = Quotient(0, 1)

(* SpecScore: a string is scored against a query (rankItem without        *)
(* accessors), over strings with upper case, whitespace, a hyphen and a    *)
(* character that is special in a pattern.                                 *)

TestChars == {"a", "b", "A", " ", "-", "("}
QueryChars == {"a", "b", " ", "("}

FredFlintstone ==
    <<"F", "r", "e", "d", " ", "F", "l", "i", "n", "t", "s", "t", "o", "n", "e">>

InitScore ==
    /\ pc = "start"
    /\ \E call \in (Strings(TestChars, MaxTestLen) \X Strings(QueryChars, MaxQueryLen))
                      \cup {<<FredFlintstone, <<"f", "f">> >>} :
          /\ item = call[1]
          /\ value = call[2]
    /\ options \in {[keepDiacritics |-> k] : k \in BOOLEAN}
    /\ InitLocals

NextScore == rankItemDirect

SpecScore == InitScore /\ [][NextScore]_vars

(* SpecFuzzy: the same call over fewer characters and longer strings.      *)

FuzzyTestChars == {"a", "b", "x", " "}
FuzzyQueryChars == {"a", "b", " "}

InitFuzzy ==
    /\ pc = "start"
    /\ item \in Strings(FuzzyTestChars, MaxTestLen)
    /\ value \in Strings(FuzzyQueryChars, MaxQueryLen)
    /\ options \in {[keepDiacritics |-> k] : k \in BOOLEAN}
    /\ InitLocals

NextFuzzy == rankItemDirect

SpecFuzzy == InitFuzzy /\ [][NextFuzzy]_vars

(* SpecRank: one call of rankItem, with and without accessors.             *)

ab == <<"a", "b">>
axb == <<"a", "x", "b">>
axxb == <<"a", "x", "x", "b">>
abx == <<"a", "b", "x">>
x == <<"x">>

RankItems ==
    {[name |-> StringValue(n), tags |-> t, age |-> NumberValue(7)] :
        n \in {ab, axb},
        t \in {null_value, ArrayValue(<<axxb, axb>>), ArrayValue(<<x, abx>>)}}

AccessorFns == {AccessorFn("name"), AccessorFn("tags"), AccessorFn("age")}

\* An accessor: a function, or an object with any of the optional properties
Accessors ==
    AccessorFns \cup
    {Spread([accessor |-> f], [k \in given |-> CONTAINS]) :
        f \in AccessorFns, given \in SUBSET {"threshold", "minRanking", "maxRanking"}}

AccessorLists == UNION {[1..n -> Accessors] : n \in 0..MaxAccessors}

InitRank ==
    /\ pc = "start"
    /\ value = ab
    /\ \/ /\ options \in {NoOptions, [threshold |-> NO_MATCH], [keepDiacritics |-> TRUE]}
          /\ item \in {ab, axb, x}
       \/ /\ \E l \in AccessorLists :
                options \in {[accessors |-> l], [accessors |-> l, threshold |-> NO_MATCH]}
          /\ item \in RankItems
    /\ InitLocals

NextRank == rankItemDirect \/ rankItemExtract \/ rankItemLoop \/ rankItemReturn

SpecRank == InitRank /\ [][NextRank]_vars

(* SpecCompare: two items ranked with the same query and options, then     *)
(* compared.                                                               *)

CompareStrings ==
    Strings({"a", "b"}, MaxItemLen)
    \cup {<<"A", "A">>, <<"b", " ", "a", "a">>, <<"a", " ", "a">>}

\* The caller keeps the result and ranks the next item.
rankNext ==
    /\ pc = "done"
    /\ other.completion = "none"
    /\ other' = result
    /\ \E chars \in CompareStrings : item' = ItemFor(options, chars)
    /\ pc' = "start"
    /\ UNCHANGED <<value, options, locals, result, order>>

InitCompare ==
    /\ pc = "start"
    /\ value = <<"a", "a">>
    /\ options \in {NoOptions, [accessors |-> <<AccessorFn("name")>>]}
    /\ \E chars \in CompareStrings : item = ItemFor(options, chars)
    /\ InitLocals

NextCompare ==
    rankItemDirect \/ rankItemExtract \/ rankItemLoop \/ rankItemReturn
    \/ rankNext \/ compare

SpecCompare == InitCompare /\ [][NextCompare]_vars

Spec == SpecRank

-----------------------------------------------------------------------------
(* Properties *)

Returned == pc = "done" /\ result.completion = "return"

\* The strictly increasing maps of the query's positions into the text's
\* under which every query character is the text's character.
Embeddings(query, text) ==
    {f \in [1..Len(query) -> 1..Len(text)] :
        /\ \A k \in 1..Len(query) : text[f[k]] = query[k]
        /\ \A k \in 1..(Len(query) - 1) : f[k] < f[k + 1]}

IsSubsequence(query, text) == Embeddings(query, text) # {}

\* The embedding whose every position is the least possible.
LeftmostEmbedding(query, text) ==
    CHOOSE f \in Embeddings(query, text) :
        \A g \in Embeddings(query, text) : \A k \in 1..Len(query) : f[k] <= g[k]

\* 0-based index of the first and of the last matched character
FirstMatched(query, text) == LeftmostEmbedding(query, text)[1] - 1
LastMatched(query, text) == LeftmostEmbedding(query, text)[Len(query)] - 1

\* A position of the text where a word starts.
IsWordStart(text, at) == at = 1 \/ text[at - 1] \in WhiteSpace \cup {"-"}

\* Every query character is, ignoring case, the first letter of a word of the
\* text, the words in the query's order.
IsAcronymOf(query, text) ==
    \E f \in [1..Len(query) -> 1..Len(text)] :
        /\ \A k \in 1..Len(query) :
              IsWordStart(text, f[k]) /\ toUpperCase(text[f[k]]) = toUpperCase(query[k])
        /\ \A k \in 1..(Len(query) - 1) : f[k] < f[k + 1]

\* The accessor bounds as the specification states them.
BoundedRank(raw, attributes) ==
    IF raw >= MATCHES /\ raw < attributes.minRanking THEN attributes.minRanking
    ELSE IF raw > attributes.maxRanking THEN attributes.maxRanking
    ELSE raw

\* The score of candidate k of valuesToRank, its bounded rank, its threshold.
ScoreOf(k) == getMatchRanking(valuesToRank[k].itemValue, value, options).value
BoundedRankOf(k) == BoundedRank(ScoreOf(k).rank, valuesToRank[k].attributes)
ThresholdOf(k) == thresholdOf(valuesToRank[k].attributes, options)

\* C1: the rank rankItem reports for the winning candidate is that
\* candidate's score brought within its accessor's bounds: never above
\* maxRanking, raised to minRanking when the score is at least MATCHES and
\* below minRanking, and NO_MATCH never raised.
C1_ReportedRankIsBounded ==
    (Returned /\ hasAccessors(options) /\ result.value.passed) =>
        /\ result.value.rank = BoundedRankOf(accessorIndex + 1)
        /\ result.value.rank <= valuesToRank[accessorIndex + 1].attributes.maxRanking

\* C2: in every RankingInfo rankItem returns, passed = (rank >= accessorThreshold).
C2_PassedIsRankAtLeastThreshold ==
    Returned =>
        result.value.passed = (result.value.rank >= result.value.accessorThreshold)

\* C3: the acronym step ignores case: when every query character is the
\* first letter of successive words of the test string, the score is
\* ACRONYM, or a higher tier that matched first.
C3_AcronymIgnoresCase ==
    (Returned /\ Len(value) > 0 /\ IsAcronymOf(value, item)) =>
        result.value.rank >= ACRONYM

\* C4: scoring a string against itself does not fail and returns
\* CASE_SENSITIVE_EQUAL.
C4_SelfScoreIsCaseSensitiveEqual ==
    (pc # "start" /\ item = value) =>
        Returned /\ result.value.rank = CASE_SENSITIVE_EQUAL

\* C5: when none of the steps 1-6 matches (the score is not above MATCHES),
\* the score is MATCHES if and only if the query's characters are, in order,
\* a subsequence of the test string, and NO_MATCH otherwise.
C5_FuzzyIffSubsequence ==
    (Returned /\ result.value.rank <= MATCHES) =>
        /\ result.value.rank \in {MATCHES, NO_MATCH}
        /\ result.value.rank = MATCHES <=> IsSubsequence(value, item)

C5_Witness ==
    Returned /\ result.value.rank = MATCHES /\ Len(value) >= 2

\* C6: accessorIndex is -1 without an accessor list or without a qualifying
\* candidate, and otherwise the position in the accessors list of the
\* accessor that produced rankedValue.
C6_AccessorIndexIsAccessorPosition ==
    Returned =>
        IF ~hasAccessors(options) \/ ~result.value.passed
        THEN result.value.accessorIndex = -1
        ELSE /\ result.value.accessorIndex \in 0..(Len(options.accessors) - 1)
             /\ \E v \in DOMAIN getItemValues(item,
                                   options.accessors[result.value.accessorIndex + 1]) :
                   getItemValues(item, options.accessors[result.value.accessorIndex + 1])[v]
                       = result.value.rankedValue

\* C7: a call of rankItem leaves the item and every field of the options
\* record as they were.
C7_InputsUnchanged == [][item' = item /\ options' = options]_vars

\* C8: compareItems is antisymmetric and zero on identical arguments; the
\* sign is decided by closeness (higher first) when both ranks are MATCHES
\* and by rank (higher first) otherwise, so STARTS_WITH sorts before CONTAINS.
Negated(q) == [num |-> -q.num, den |-> q.den]

C8_CompareAntisymmetric ==
    pc = "compared" =>
        LET a == other.value
            b == result.value
        IN  /\ order.den > 0
            /\ order = Negated(compareItems(b, a))
            /\ compareItems(a, a).num = 0 /\ compareItems(a, a).den > 0
            /\ compareItems(b, b).num = 0 /\ compareItems(b, b).den > 0
            /\ IF a.rank = MATCHES /\ b.rank = MATCHES
               THEN /\ order.num < 0 <=> QuotientGreater(a.closeness, b.closeness)
                    /\ order.num > 0 <=> QuotientGreater(b.closeness, a.closeness)
               ELSE /\ order.num < 0 <=> a.rank > b.rank
                    /\ order.num > 0 <=> b.rank > a.rank
            /\ (a.rank = STARTS_WITH /\ b.rank = CONTAINS) => order.num < 0

C8_Witness ==
    /\ pc = "compared"
    /\ other.value.rank = MATCHES
    /\ result.value.rank = MATCHES
    /\ order.num < 0

\* C9: after all candidates, the selected one is the earliest among the
\* candidates meeting their accessor's threshold whose bounded rank is
\* maximal, closeness deciding only between two candidates at MATCHES.
Beats(k, w) ==
    \/ BoundedRankOf(k) > BoundedRankOf(w)
    \/ /\ BoundedRankOf(k) = MATCHES /\ ScoreOf(k).rank = MATCHES
       /\ BoundedRankOf(w) = MATCHES /\ ScoreOf(w).rank = MATCHES
       /\ QuotientGreater(ScoreOf(k).closeness, ScoreOf(w).closeness)

C9_EarliestBestCandidateWins ==
    (Returned /\ hasAccessors(options) /\ result.value.passed) =>
        LET meeting == {k \in DOMAIN valuesToRank : BoundedRankOf(k) >= ThresholdOf(k)}
            w == accessorIndex + 1
        IN  /\ w \in meeting
            /\ \A k \in meeting : ~Beats(k, w)
            /\ \A k \in meeting : k < w => Beats(w, k)

\* C10 as stated: spread = (index of the last matched character + 1) - (index
\* of the first), the matched count is the query's length, and closeness =
\* matched count / query length / spread = 1 / spread.
C10_SpreadIsLastPlusOneMinusFirst ==
    (Returned /\ result.value.rank = MATCHES) =>
        /\ result.value.index = (LastMatched(value, item) + 1) - FirstMatched(value, item)
        /\ result.value.length = Len(value)
        /\ result.value.closeness.num * (Len(value) * result.value.index)
              = result.value.length * result.value.closeness.den
        /\ result.value.closeness.num * result.value.index = result.value.closeness.den

\* C10 amended: spread = (index of the last matched character) - (index of
\* the first); the rest as stated.
C10_SpreadIsLastMinusFirst ==
    (Returned /\ result.value.rank = MATCHES) =>
        /\ result.value.index = LastMatched(value, item) - FirstMatched(value, item)
        /\ result.value.index > 0
        /\ result.value.length = Len(value)
        /\ result.value.closeness.den > 0
        /\ result.value.closeness.num * (Len(value) * result.value.index)
              = result.value.length * result.value.closeness.den
        /\ result.value.closeness.num * result.value.index = result.value.closeness.den

C10_Witness ==
    /\ Returned
    /\ result.value.rank = MATCHES
    /\ LastMatched(value, item) - FirstMatched(value, item) = 2

====
